---- MODULE Spec2Model ----
(***************************************************************************)
(* Model of src/llms/llms.py: the factory functions get_mistral,           *)
(* get_gpt4all and get_ollama, the prompt builder get_prompt and the       *)
(* query executor get_answer, together with the part of the wrapped        *)
(* libraries (PromptTemplate, GPT4All, Ollama) that the calls reach.       *)
(*                                                                         *)
(* A text is a sequence of symbols: a symbol is a brace or a whole word.   *)
(* A template is a sequence of tokens, each token a piece of template      *)
(* text as Python's str.format parser cuts it: a literal word, a doubled   *)
(* brace, or a replacement field.                                          *)
(***************************************************************************)
EXTENDS Naturals, Sequences, FiniteSets

VARIABLES
    validate_template,  \* PromptTemplate.validate_template default of the installed langchain
    files,              \* the model artifacts present on the filesystem
    service,            \* TRUE iff the local inference service can be reached
    handles,            \* the model handles the caller holds
    prompt,             \* the PromptTemplate the caller holds (NoPrompt before any)
    last,               \* the last call made: operation, arguments, outcome
    ret                 \* the value that call returned (NoneValue when it raised)

vars == <<validate_template, files, service, handles, prompt, last, ret>>

-----------------------------------------------------------------------------
(* Bounds of the model. *)

MaxTplLen == 3
MaxHandles == 2
MaxSamples == 2

-----------------------------------------------------------------------------
(* Texts and templates. *)

Tokens == {"a", "{{", "{question}", "{context}", "{other}"}

IsField(tok) == tok \in {"{question}", "{context}", "{other}"}

FieldName(tok) ==
    CASE tok = "{question}" -> "question"
      [] tok = "{context}" -> "context"
      [] tok = "{other}" -> "other"

\* The characters of a token, as they stand in the template text.
TokenText(tok) ==
    CASE tok = "a" -> <<"a">>
      [] tok = "{{" -> <<"{", "{">>
      [] IsField(tok) -> <<"{", FieldName(tok), "}">>

Templates == UNION {[1..n -> Tokens] : n \in 0..MaxTplLen}

Contexts == {<<"x">>, <<"{", "question", "}">>}

Questions == {<<"y">>, <<"{", "context", "}">>}

\* The replacement fields a template names.
Fields(template) ==
    {FieldName(template[i]) : i \in {j \in 1..Len(template) : IsField(template[j])}}

RECURSIVE TemplateText(_)
TemplateText(template) ==
    IF template = <<>> THEN <<>>
    ELSE TokenText(Head(template)) \o TemplateText(Tail(template))

-----------------------------------------------------------------------------
(* Python values and call outcomes. *)

NoneValue == [type |-> "NoneType"]

NoPrompt == [type |-> "NoPrompt"]

Returned(v) == [outcome |-> "ok", error |-> "", value |-> v]

Raised(e) == [outcome |-> "error", error |-> e, value |-> NoneValue]

-----------------------------------------------------------------------------
(* PromptTemplate of langchain, as get_prompt uses it. *)

\* str.format over the template with keyword arguments kwargs: one pass over
\* the tokens; a doubled brace yields one brace, a field yields its argument
\* verbatim (the argument is not parsed again), a field with no argument
\* raises KeyError.
\* A formatter that substitutes the context first and parses the result
\* again: a question field inside the context value is filled in too.
RECURSIVE FormatTokensReparsed(_, _)
FormatTokensReparsed(template, kwargs) ==
    IF template = <<>> THEN <<>>
    ELSE LET tok == Head(template)
             arg == IF IsField(tok) THEN kwargs[FieldName(tok)] ELSE <<>>
             piece == CASE tok = "a" -> <<"a">>
                        [] tok = "{{" -> <<"{">>
                        [] IsField(tok) ->
                             IF /\ tok = "{context}"
                                /\ arg = <<"{", "question", "}">>
                                /\ "question" \in DOMAIN kwargs
                             THEN kwargs["question"]
                             ELSE arg
         IN piece \o FormatTokensReparsed(Tail(template), kwargs)

RECURSIVE FormatTokens(_, _)
FormatTokens(template, kwargs) ==
    IF template = <<>> THEN <<>>
    ELSE LET tok == Head(template)
             piece == CASE tok = "a" -> <<"a">>
                        [] tok = "{{" -> <<"{">>
                        [] IsField(tok) -> kwargs[FieldName(tok)]
         IN piece \o FormatTokens(Tail(template), kwargs)

Format(template, kwargs) ==
    IF Fields(template) \subseteq DOMAIN kwargs
    THEN Returned([type |-> "str", text |-> FormatTokens(template, kwargs)])
    ELSE Raised("KeyError")

\* PromptTemplate(template=..., input_variables=..., partial_variables=...):
\* with validate_template the fields of the template must be exactly the
\* input and partial variables; without it the input variables are inferred
\* from the template.
NewPromptTemplate(template, input_variables, partial_variables, validate) ==
    IF validate
    THEN IF Fields(template) = input_variables \cup DOMAIN partial_variables
         THEN Returned([type |-> "PromptTemplate", template |-> template,
                        input_variables |-> input_variables,
                        partial_variables |-> partial_variables])
         ELSE Raised("TemplateError")
    ELSE Returned([type |-> "PromptTemplate", template |-> template,
                   input_variables |-> Fields(template) \ DOMAIN partial_variables,
                   partial_variables |-> partial_variables])

\* PromptTemplate.partial(context=context): a new PromptTemplate; the
\* receiver is left as it is.
Partial(p, context, validate) ==
    NewPromptTemplate(p.template, p.input_variables \ {"context"},
                      [k \in DOMAIN p.partial_variables \cup {"context"} |->
                          IF k = "context" THEN context ELSE p.partial_variables[k]],
                      validate)

\* PromptTemplate.format(question=question): the partial variables merged
\* with the caller's, then str.format.
Render(p, question) ==
    Format(p.template,
           [k \in DOMAIN p.partial_variables \cup {"question"} |->
               IF k = "question" THEN question ELSE p.partial_variables[k]])

NoPartial == [k \in {} |-> <<>>]

\* get_prompt(template, context)
get_prompt(template, context, validate) ==
    LET made == NewPromptTemplate(template, {"question", "context"}, NoPartial, validate)
    IN IF made.outcome = "error" THEN made
       ELSE Partial(made.value, context, validate)

-----------------------------------------------------------------------------
(* The model factories. *)

ModelPaths == {"models/gptj.bin", "models/absent.bin"}

Backends == {"gptj", "llama"}

ModelNames == {"llama2", "nomodel"}

\* The names the local inference service knows.
ServiceModels == {"llama2"}

NoCallbacks == {}

StreamingStdOut == {"StreamingStdOutCallbackHandler"}

NoConfig == [set |-> FALSE]

Handle(kind, model, backend, config, callbacks) ==
    [type |-> "handle", kind |-> kind, model |-> model, backend |-> backend,
     config |-> config, callbacks |-> callbacks]

\* The configuration get_mistral builds (floats kept as written).
conf ==
    [set |-> TRUE, temperature |-> "0.8", repetition_penalty |-> "1.2",
     max_new_tokens |-> 1024, context_length |-> 2048]

\* AutoModelForCausalLM.from_pretrained: loads the artifact at the path.
from_pretrained(path, model_type, config, fs) ==
    IF path \in fs
    THEN Returned(Handle(model_type, path, model_type, config, NoCallbacks))
    ELSE Raised("ModelLoadError")

\* The keyword names of the from_pretrained call in get_mistral, as written.
mistral_keywords == <<"config", "model_type", "config">>

KeywordRepeated(kws) ==
    \E i, j \in 1..Len(kws) : i # j /\ kws[i] = kws[j]

\* get_mistral(): Python rejects a call that repeats a keyword argument
\* ("SyntaxError: keyword argument repeated: config"), so the call to
\* from_pretrained is never made.
get_mistral(fs) ==
    IF KeywordRepeated(mistral_keywords)
    THEN Raised("SyntaxError")
    ELSE from_pretrained("models/mistral", "mistral", conf, fs)

\* GPT4All(model=..., backend=..., callbacks=...): the constructor loads the
\* model file and raises when there is none.
GPT4All(model, backend, callbacks, fs) ==
    IF model \in fs
    THEN Returned(Handle("GPT4All", model, backend, NoConfig, callbacks))
    ELSE Raised("ModelLoadError")

\* The callbacks the flag selects (lines 55-57 and 64-66).
CallbacksFor(callback) == IF callback THEN StreamingStdOut ELSE NoCallbacks

\* A get_gpt4all whose streaming branch falls back to the default backend.
get_gpt4all_default_backend(model_pth, backend, callback, fs) ==
    GPT4All(model_pth, IF callback THEN "gptj" ELSE backend, CallbacksFor(callback), fs)

\* A get_gpt4all that hands back a handle although the file could not be loaded.
get_gpt4all_unloaded(model_pth, backend, callback, fs) ==
    Returned(Handle("GPT4All", model_pth, backend, NoConfig, CallbacksFor(callback)))

\* get_gpt4all(model_pth, backend, callback)
get_gpt4all(model_pth, backend, callback, fs) ==
    GPT4All(model_pth, backend, CallbacksFor(callback), fs)

\* Ollama(model=..., callback_manager=...): the constructor only records its
\* fields; the service is contacted when the handle is invoked.
Ollama(model, callback_manager) ==
    Returned(Handle("Ollama", model, "", NoConfig, callback_manager))

\* A get_ollama that asks the service for the model when it builds the handle.
get_ollama_probing(model_name, callback, svc) ==
    IF ~svc THEN Raised("ServiceUnavailableError")
    ELSE IF model_name \notin ServiceModels THEN Raised("ModelNotFoundError")
    ELSE Ollama(model_name, CallbacksFor(callback))

\* get_ollama(model_name, callback); svc is the state of the service, which
\* the call does not consult.
get_ollama(model_name, callback, svc) ==
    Ollama(model_name, CallbacksFor(callback))

-----------------------------------------------------------------------------
(* Invoking a handle. *)

Samples == 1..MaxSamples

\* What the underlying model does on one invocation: it raises, or it
\* completes with one of the texts its sampling can produce.
ModelErrors == {"ValueError", "RuntimeError"}

Responses ==
    {[kind |-> "text", sample |-> s, error |-> ""] : s \in Samples}
    \cup {[kind |-> "raise", sample |-> 0, error |-> e] : e \in ModelErrors}

\* The text a model generates: determined by the weights, the backend, the
\* input handed to it and the outcome of its sampling.
Generate(model, backend, input, sample) ==
    [type |-> "str", text |-> <<model, backend, input, sample>>]

NoStream == <<>>

\* llm(input): one invocation of the handle.  ValueError is the rejection of
\* the argument before any generation; an Ollama handle then contacts the
\* service; the tokens go to the callbacks as well as into the result.
Invoke(llm, input, resp, svc) ==
    LET failed(e) == [outcome |-> "error", error |-> e, value |-> NoneValue,
                      llm |-> llm, calls |-> 1, streamed |-> NoStream]
    IN IF resp.kind = "raise" /\ resp.error = "ValueError" THEN failed("ValueError")
       ELSE IF llm.kind = "Ollama" /\ ~svc THEN failed("ServiceUnavailableError")
       ELSE IF llm.kind = "Ollama" /\ llm.model \notin ServiceModels
            THEN failed("ModelNotFoundError")
       ELSE IF resp.kind = "raise" THEN failed(resp.error)
       ELSE LET out == Generate(llm.model, llm.backend, input, resp.sample)
            IN [outcome |-> "ok", error |-> "", value |-> out, llm |-> llm,
                calls |-> 1,
                streamed |-> IF llm.callbacks # NoCallbacks THEN <<out.text>> ELSE NoStream]

\* A get_answer that catches what the handle raises and answers with nothing.
get_answer_swallowing(llm, question, resp, svc) ==
    LET r == Invoke(llm, [question |-> question], resp, svc)
    IN IF r.outcome = "error"
       THEN [r EXCEPT !.outcome = "ok", !.error = "",
                      !.value = [type |-> "dict", items |-> [answer |-> <<>>]]]
       ELSE r

\* A get_answer that keeps the last question on the handle.
get_answer_remembering(llm, question, resp, svc) ==
    LET r == Invoke(llm, [question |-> question], resp, svc)
    IN [r EXCEPT !.llm = [llm EXCEPT !.config = [set |-> TRUE, history |-> question]]]

\* get_answer(llm, question): the handle is called with the dict
\* {'question': question} and what it returns is returned as it is.
get_answer(llm, question, resp, svc) ==
    Invoke(llm, [question |-> question], resp, svc)

-----------------------------------------------------------------------------
(* The state machine: a caller making calls, one at a time. *)

NoArg == [none |-> TRUE]

Call(op, arg, r) ==
    [op |-> op, arg |-> arg, outcome |-> r.outcome, error |-> r.error,
     calls |-> 0, streamed |-> NoStream]

\* The environments a run may start in.
FileSets == {{"models/gptj.bin"}, {"models/gptj.bin", "models/mistral"}}

InitWith(validates, filesets, services) ==
    /\ validate_template \in validates
    /\ files \in filesets
    /\ service \in services
    /\ handles = {}
    /\ prompt = NoPrompt
    /\ last = [op |-> "none", arg |-> NoArg, outcome |-> "none", error |-> "",
               calls |-> 0, streamed |-> NoStream]
    /\ ret = NoneValue

Init == InitWith(BOOLEAN, FileSets, BOOLEAN)

\* The caller keeps the handle a factory returned, with the call that made it.
Keep(r, arg) ==
    IF r.outcome = "ok" THEN handles \cup {[args |-> arg, obj |-> r.value]} ELSE handles

GetMistral ==
    /\ Cardinality(handles) < MaxHandles
    /\ LET r == get_mistral(files)
           arg == [op |-> "get_mistral", model |-> "models/mistral",
                   backend |-> "mistral", callback |-> FALSE]
       IN /\ handles' = Keep(r, arg)
          /\ last' = Call("get_mistral", arg, r)
          /\ ret' = r.value
    /\ UNCHANGED <<validate_template, files, service, prompt>>

GetGpt4all ==
    /\ Cardinality(handles) < MaxHandles
    /\ \E model_pth \in ModelPaths, backend \in Backends, callback \in BOOLEAN :
         LET r == get_gpt4all(model_pth, backend, callback, files)
             arg == [op |-> "get_gpt4all", model |-> model_pth,
                     backend |-> backend, callback |-> callback]
         IN /\ handles' = Keep(r, arg)
            /\ last' = Call("get_gpt4all", arg, r)
            /\ ret' = r.value
    /\ UNCHANGED <<validate_template, files, service, prompt>>

GetOllama ==
    /\ Cardinality(handles) < MaxHandles
    /\ \E model_name \in ModelNames, callback \in BOOLEAN :
         LET r == get_ollama(model_name, callback, service)
             arg == [op |-> "get_ollama", model |-> model_name,
                     backend |-> "", callback |-> callback]
         IN /\ handles' = Keep(r, arg)
            /\ last' = Call("get_ollama", arg, r)
            /\ ret' = r.value
    /\ UNCHANGED <<validate_template, files, service, prompt>>

\* The caller builds its prompt once (a failed call leaves it without one)
\* and keeps it with the call that made it.
GetPromptFrom(templates) ==
    /\ prompt = NoPrompt
    /\ \E template \in templates, context \in Contexts :
         LET r == get_prompt(template, context, validate_template)
             arg == [template |-> template, context |-> context]
         IN /\ prompt' = IF r.outcome = "ok" THEN [args |-> arg, obj |-> r.value]
                          ELSE prompt
            /\ last' = Call("get_prompt", arg, r)
            /\ ret' = r.value
    /\ UNCHANGED <<validate_template, files, service, handles>>

GetPrompt == GetPromptFrom(Templates)

RenderPrompt ==
    /\ prompt # NoPrompt
    /\ \E question \in Questions :
         LET r == Render(prompt.obj, question)
         IN /\ last' = Call("render", [question |-> question], r)
            /\ ret' = r.value
    /\ UNCHANGED <<validate_template, files, service, handles, prompt>>

GetAnswer ==
    /\ \E h \in handles, question \in Questions, resp \in Responses :
         LET r == get_answer(h.obj, question, resp, service)
         IN /\ handles' = {IF e = h THEN [e EXCEPT !.obj = r.llm] ELSE e : e \in handles}
            /\ last' = [op |-> "get_answer",
                        arg |-> [llm |-> h.obj, question |-> question, resp |-> resp],
                        outcome |-> r.outcome, error |-> r.error,
                        calls |-> r.calls, streamed |-> r.streamed]
            /\ ret' = r.value
    /\ UNCHANGED <<validate_template, files, service, prompt>>

\* Prompt building and rendering alone.
NextPrompt == GetPrompt \/ RenderPrompt

InitPrompt == InitWith(BOOLEAN, {{"models/gptj.bin"}}, {TRUE})

SpecPrompt == InitPrompt /\ [][NextPrompt]_vars

\* Model construction and invocation alone.
NextModel == GetMistral \/ GetGpt4all \/ GetOllama \/ GetAnswer

InitModel == InitWith({TRUE}, FileSets, BOOLEAN)

SpecModel == InitModel /\ [][NextModel]_vars

\* Every operation; the templates are the two-token ones that start with the
\* question field.
FrameTemplates == {t \in Templates : Len(t) = 2 /\ t[1] = "{question}"}

GetPromptFrame == GetPromptFrom(FrameTemplates)

Next ==
    GetMistral \/ GetGpt4all \/ GetOllama \/ GetAnswer \/ GetPromptFrame \/ RenderPrompt

Spec == Init /\ [][Next]_vars

-----------------------------------------------------------------------------
(* Properties of the prompt builder (under SpecPrompt). *)

BothSlots == {"question", "context"}

\* The template text with every context field replaced by c and every
\* question field replaced by q, a doubled brace written as brace.
RECURSIVE Substituted(_, _, _, _)
Substituted(template, c, q, brace) ==
    IF template = <<>> THEN <<>>
    ELSE LET tok == Head(template)
         IN (IF tok = "{context}" THEN c
             ELSE IF tok = "{question}" THEN q
             ELSE IF tok = "{{" THEN brace
             ELSE TokenText(tok))
            \o Substituted(Tail(template), c, q, brace)

\* C1 as stated: whenever the template contains both the question and the
\* context slot, get_prompt succeeds and every rendering is the template text
\* with the two slots replaced.
C1_AnyTemplateWithBothSlots ==
    /\ (last.op = "get_prompt" /\ BothSlots \subseteq Fields(last.arg.template))
         => last.outcome = "ok"
    /\ (last.op = "render" /\ BothSlots \subseteq Fields(prompt.args.template))
         => /\ last.outcome = "ok"
            /\ ret.text = Substituted(prompt.args.template, prompt.args.context,
                                      last.arg.question, TokenText("{{"))

\* C1 (amended): whenever the slots of the template are exactly question and
\* context, get_prompt succeeds and every rendering, whatever came before, is
\* the template text with every context slot replaced by the context, every
\* question slot replaced by the question, both taken verbatim, and every
\* doubled brace written once.
C1_ExactSlotsRender ==
    /\ (last.op = "get_prompt" /\ Fields(last.arg.template) = BothSlots)
         => /\ last.outcome = "ok"
            /\ prompt.obj = ret
            /\ ret.type = "PromptTemplate"
    /\ (last.op = "render" /\ Fields(prompt.args.template) = BothSlots)
         => /\ last.outcome = "ok"
            /\ ret.type = "str"
            /\ ret.text = Substituted(prompt.args.template, prompt.args.context,
                                      last.arg.question, <<"{">>)

\* A rendering of a template with a doubled brace and both slots, the context
\* value itself spelling a question field.
C1_Witness ==
    /\ last.op = "render"
    /\ last.outcome = "ok"
    /\ Fields(prompt.args.template) = BothSlots
    /\ prompt.args.context = <<"{", "question", "}">>
    /\ ret.text # TemplateText(prompt.args.template)

\* C2: whenever the template lacks the question slot or the context slot,
\* get_prompt fails with TemplateError and returns no PromptTemplate.
C2_MissingSlotFails ==
    (last.op = "get_prompt" /\ ~(BothSlots \subseteq Fields(last.arg.template)))
        => /\ last.outcome = "error"
           /\ last.error = "TemplateError"
           /\ ret = NoneValue
           /\ prompt = NoPrompt

-----------------------------------------------------------------------------
(* Properties of the factories and of get_answer (under SpecModel). *)

\* C3: a get_answer call that completes returns a record whose only key is
\* answer, holding the text the model generated for the question.
C3_AnswerRecord ==
    (last.op = "get_answer" /\ last.outcome = "ok")
        => /\ ret.type = "dict"
           /\ DOMAIN ret.items = {"answer"}

\* Two kept handles made by the same factory with the same model and backend
\* arguments, the first with streaming on and the second with it off.
StreamingPair(e1, e2) ==
    /\ e1.args.op = e2.args.op
    /\ e1.args.model = e2.args.model
    /\ e1.args.backend = e2.args.backend
    /\ e1.args.callback
    /\ ~e2.args.callback

\* C4: for the same model, backend and question and the same sampling by the
\* model, the handle made with streaming on and the handle made with
\* streaming off end get_answer the same way with the same text; the
\* streaming one also puts that text on the sink, the other puts nothing.
C4_StreamingSameText ==
    \A e1, e2 \in handles :
        StreamingPair(e1, e2) =>
            \A question \in Questions, resp \in Responses :
                LET r1 == get_answer(e1.obj, question, resp, service)
                    r2 == get_answer(e2.obj, question, resp, service)
                IN /\ r1.outcome = r2.outcome
                   /\ r1.error = r2.error
                   /\ r1.value = r2.value
                   /\ r2.streamed = NoStream
                   /\ r1.streamed = IF r1.outcome = "ok" THEN <<r1.value.text>>
                                    ELSE NoStream

\* A completed get_answer on a streaming handle, made with a backend other
\* than the default, whose non-streaming twin is kept too.
C4_Witness ==
    /\ last.op = "get_answer"
    /\ last.outcome = "ok"
    /\ last.streamed # NoStream
    /\ \E e1, e2 \in handles :
         /\ StreamingPair(e1, e2)
         /\ e1.obj = last.arg.llm
         /\ e1.args.backend = "llama"

\* C5: a get_gpt4all call with a path at which there is no model file fails
\* with ModelLoadError, returns nothing, and leaves the handles, the prompt
\* and the environment as they were.
C5_MissingFileNoMutation ==
    [][(last'.op = "get_gpt4all" /\ last'.arg.model \notin files)
         => /\ last'.outcome = "error"
            /\ last'.error = "ModelLoadError"
            /\ ret' = NoneValue
            /\ handles' = handles
            /\ prompt' = prompt
            /\ files' = files
            /\ service' = service]_vars

\* A failed get_gpt4all on a missing file while the caller holds a handle.
C5_Witness ==
    /\ last.op = "get_gpt4all"
    /\ last.arg.model \notin files
    /\ last.outcome = "error"
    /\ handles # {}

\* C6: when the invocation of the handle raises, get_answer ends in an error
\* carrying that same error, after a single invocation, and returns nothing.
C6_ErrorPropagates ==
    last.op = "get_answer" =>
        LET r == Invoke(last.arg.llm, [question |-> last.arg.question],
                        last.arg.resp, service)
        IN r.outcome = "error"
             => /\ last.outcome = "error"
                /\ last.error = r.error
                /\ ret = NoneValue
                /\ last.calls = 1
                /\ last.streamed = NoStream

\* A get_answer in which the model itself raised a runtime error.
C6_Witness ==
    /\ last.op = "get_answer"
    /\ last.arg.resp.kind = "raise"
    /\ last.outcome = "error"
    /\ last.error = "RuntimeError"

\* C7 as stated: get_ollama fails with ServiceUnavailableError when the
\* service cannot be reached, with ModelNotFoundError when the service does
\* not know the name, and returns a handle only otherwise.
C7_FailsAtConstruction ==
    last.op = "get_ollama" =>
        IF ~service THEN last.outcome = "error" /\ last.error = "ServiceUnavailableError"
        ELSE IF last.arg.model \notin ServiceModels
             THEN last.outcome = "error" /\ last.error = "ModelNotFoundError"
        ELSE last.outcome = "ok"

\* C7 (amended): get_ollama returns a handle for the name whether or not the
\* service can be reached or knows the name; get_answer on a handle whose
\* service cannot be reached or does not know the name fails.
C7_FailsAtInvocation ==
    /\ last.op = "get_ollama"
         => /\ last.outcome = "ok"
            /\ ret.kind = "Ollama"
            /\ ret.model = last.arg.model
            /\ ret.callbacks = CallbacksFor(last.arg.callback)
    /\ (last.op = "get_answer" /\ last.arg.llm.kind = "Ollama"
          /\ (~service \/ last.arg.llm.model \notin ServiceModels))
         => /\ last.outcome = "error"
            /\ last.error \in {"ServiceUnavailableError", "ModelNotFoundError",
                               "ValueError"}

\* A get_answer that failed on an Ollama handle built while the service could
\* not be reached.
C7_Witness ==
    /\ ~service
    /\ last.op = "get_answer"
    /\ last.arg.llm.kind = "Ollama"
    /\ last.error = "ServiceUnavailableError"

\* C8: get_mistral returns a handle of kind mistral carrying the
\* configuration when the artifact models/mistral is present, and fails with
\* ModelLoadError when it is not.
C8_MistralHandle ==
    last.op = "get_mistral" =>
        IF "models/mistral" \in files
        THEN /\ last.outcome = "ok"
             /\ ret = Handle("mistral", "models/mistral", "mistral", conf, NoCallbacks)
        ELSE /\ last.outcome = "error"
             /\ last.error = "ModelLoadError"

-----------------------------------------------------------------------------
(* Frame of the calls (under Spec). *)

\* C9: no call changes or drops a handle the caller holds or the prompt it
\* holds, the context bound in the prompt is the one given to get_prompt, and
\* a get_answer or a rendering changes nothing but its own result.
C9_CallsKeepState ==
    [][/\ handles \subseteq handles'
       /\ prompt # NoPrompt => prompt' = prompt
       /\ prompt' # NoPrompt
            => prompt'.obj.partial_variables["context"] = prompt'.args.context
       /\ last'.op \in {"get_answer", "render"}
            => /\ handles' = handles
               /\ prompt' = prompt
               /\ files' = files
               /\ service' = service
               /\ validate_template' = validate_template]_vars

\* A completed get_answer by a caller that holds two handles and a prompt
\* with its context bound.
C9_Witness ==
    /\ last.op = "get_answer"
    /\ last.outcome = "ok"
    /\ Cardinality(handles) = 2
    /\ prompt # NoPrompt
    /\ prompt.obj.partial_variables["context"] = prompt.args.context

====
